---- MODULE Spec2Model ----
(***************************************************************************)
(* A model of the ethereum-hd-wallet demo: the functions of the module     *)
(* (restoreHDNode, restoreHDWallet, generateRandomHDNode,                  *)
(* generateRandomHDWallet, saveWalletAsJson, decryptWallet,                *)
(* deriveFiveWalletsFromHdNode, signTransaction, signMyTransaction,        *)
(* testApp), the two async tasks started at load, and the wallet library   *)
(* they call (mnemonic codec, seed derivation, HD key tree, keystore       *)
(* codec, transaction signer).                                             *)
(*                                                                         *)
(* The cryptographic primitives are scaled down: a word of the wordlist    *)
(* is 3 bits instead of 11, a phrase is 2 words instead of 12, entropy is  *)
(* 4 bits and the checksum 2 bits; keys and chain codes are numbers below  *)
(* 65521 (standing for the curve order) and the keyed hashes are small     *)
(* arithmetic mixes. A MAC is the pair of its inputs (no collisions).      *)
(***************************************************************************)
EXTENDS Integers, Sequences, FiniteSets, TLC

(***************************************************************************)
(* State.                                                                  *)
(***************************************************************************)
VARIABLES
    heap,      \* the HD nodes a caller of the key-tree functions holds
    last,      \* the last key-tree call: arguments, result, nodes it allocated
    save,      \* the last call of saveWalletAsJson and its promise
    dec,       \* the last call of decryptWallet and its promise
    signLog,   \* the calls of signTransaction and what they settled with
    smt,       \* the last call of signMyTransaction and its promise
    rnd,       \* what the random source returned last
    pc1,       \* position of the first async task (lines 60-65)
    pc2,       \* position of the second async task (lines 81-89)
    pc3,       \* position of testApp and its signMyTransaction (lines 136-171)
    env1,      \* the first task's wallet, password, json
    env2,      \* the second task's wallet, password, json, walletDecrypted
    env3,      \* testApp's wallets, recipient, value, signedTransaction
    console    \* what console.log has printed, in order

treeVars == << heap, last >>

ksVars == << save, dec >>

signVars == << signLog, smt, rnd >>

appVars == << pc1, pc2, pc3, env1, env2, env3, console >>

vars == << heap, last, save, dec, signLog, smt, rnd,
           pc1, pc2, pc3, env1, env2, env3, console >>

notTree == << ksVars, signVars, appVars >>

notKeystore == << treeVars, signVars, appVars >>

notSign == << treeVars, ksVars, appVars >>

notApp == << treeVars, ksVars, signVars >>

(***************************************************************************)
(* Promise outcomes and exceptions.                                        *)
(***************************************************************************)
Err(e) == [err |-> e]

IsErr(x) == "err" \in DOMAIN x

(***************************************************************************)
(* Mnemonic codec.                                                         *)
(***************************************************************************)
WordList == 0..7

EntropySet == 0..15

\* the high checksum bits of the entropy's hash
Checksum(e) == ((e * 7 + 5) % 16) \div 4

entropyToMnemonic(e) ==
    LET v == e * 4 + Checksum(e)
    IN  << v \div 8, v % 8 >>

mnemonicToEntropy(m) ==
    IF Len(m) # 2 THEN Err("InvalidWordCount")
    ELSE IF \E i \in 1..Len(m) : m[i] \notin WordList THEN Err("InvalidWord")
    ELSE LET v == m[1] * 8 + m[2]
             e == v \div 4
         IN  IF v % 4 # Checksum(e) THEN Err("InvalidChecksum")
             ELSE [entropy |-> e]

(***************************************************************************)
(* Seed derivation: a stretch of the phrase's text.                        *)
(***************************************************************************)
RECURSIVE StretchWords(_, _)
StretchWords(m, acc) ==
    IF m = << >> THEN acc
    ELSE StretchWords(Tail(m), (acc * 131 + Head(m) * 17 + 7) % 65521)

mnemonicToSeed(m) == StretchWords(m, 1)

(***************************************************************************)
(* HD key tree.                                                            *)
(***************************************************************************)
\* HMAC-SHA512 halves: sel = 1 is the left half, sel = 2 the right half
Mix(key, data, sel) == ((key * 31 + data * 17 + sel * 7919 + 11) % 65520) + 1

PublicKeyOf(priv) == (priv * 3) % 65521

FingerprintOf(pub) == (pub * 5 + 1) % 251

NoMnemonic == << >>

PathM == [abs |-> TRUE, comps |-> << >>]

fromSeed(seed, mnemonic) ==
    LET IL == Mix(20, seed, 1)
        IR == Mix(20, seed, 2)
    IN  [privateKey |-> IL, publicKey |-> PublicKeyOf(IL), chainCode |-> IR,
         depth |-> 0, index |-> 0, parentFingerprint |-> 0,
         mnemonic |-> mnemonic, path |-> PathM]

\* HDNode.fromMnemonic: the phrase is checked before the seed is derived
fromMnemonic(m) ==
    LET e == mnemonicToEntropy(m)
    IN  IF IsErr(e) THEN e ELSE fromSeed(mnemonicToSeed(m), m)

Seg(n, h) == [index |-> n, hardened |-> h]

SegIndex(seg) == IF seg.hardened THEN seg.index + 32768 ELSE seg.index

deriveChild(parent, seg) ==
    LET data == IF seg.hardened THEN parent.privateKey ELSE parent.publicKey
        IL == Mix(parent.chainCode, data * 7 + SegIndex(seg), 1)
        IR == Mix(parent.chainCode, data * 7 + SegIndex(seg), 2)
        ki == (IL + parent.privateKey) % 65521
    IN  IF ki = 0 THEN Err("InvalidDerivedKey")
        ELSE [privateKey |-> ki, publicKey |-> PublicKeyOf(ki), chainCode |-> IR,
              depth |-> parent.depth + 1, index |-> SegIndex(seg),
              parentFingerprint |-> FingerprintOf(parent.publicKey),
              mnemonic |-> parent.mnemonic,
              path |-> [parent.path EXCEPT !.comps = Append(@, seg)]]

(***************************************************************************)
(* Nodes live in a heap: a sequence of cells, each holding a node, the     *)
(* cell it was derived from (0 for a root) and the segment applied.        *)
(* Deriving allocates a new cell.                                          *)
(***************************************************************************)
Cell(node, parent, seg) == [node |-> node, parent |-> parent, seg |-> seg]

RootCell(node) == Cell(node, 0, Seg(0, FALSE))

\* a derivation that writes the child over its parent before returning it
deriveInPlace(h, id, seg) ==
    LET child == deriveChild(h[id].node, seg)
    IN  IF IsErr(child) THEN [heap |-> h, id |-> 0, err |-> child.err]
        ELSE [heap |-> Append([h EXCEPT ![id].node = child], Cell(child, id, seg)),
              id |-> Len(h) + 1, err |-> ""]

derive(h, id, seg) ==
    LET child == deriveChild(h[id].node, seg)
    IN  IF IsErr(child) THEN [heap |-> h, id |-> 0, err |-> child.err]
        ELSE [heap |-> Append(h, Cell(child, id, seg)), id |-> Len(h) + 1, err |-> ""]

RECURSIVE deriveComps(_, _, _)
deriveComps(h, id, comps) ==
    IF comps = << >> THEN [heap |-> h, id |-> id, err |-> ""]
    ELSE IF Head(comps).hardened /\ Head(comps).index >= 32768
         THEN [heap |-> h, id |-> 0, err |-> "InvalidPathSyntax"]
    ELSE LET r == derive(h, id, Head(comps))
         IN  IF r.err # "" THEN r ELSE deriveComps(r.heap, r.id, Tail(comps))

\* HDNode.derivePath: a path that starts with m applies to a root only
derivePathH(h, id, path) ==
    IF path.abs /\ h[id].node.depth # 0
    THEN [heap |-> h, id |-> 0, err |-> "InvalidPathSyntax"]
    ELSE deriveComps(h, id, path.comps)

derivePath(node, path) ==
    LET r == derivePathH(<< RootCell(node) >>, 1, path)
    IN  IF r.err # "" THEN Err(r.err) ELSE r.heap[r.id].node

\* HDNode.fromMnemonic into the heap
fromMnemonicH(h, m) ==
    LET n == fromMnemonic(m)
    IN  IF IsErr(n) THEN [heap |-> h, id |-> 0, err |-> n.err]
        ELSE [heap |-> Append(h, RootCell(n)), id |-> Len(h) + 1, err |-> ""]

(***************************************************************************)
(* Wallets.                                                                *)
(***************************************************************************)
PathNone == [abs |-> FALSE, comps |-> << >>]

\* new Wallet(hdNode)
WalletOfNode(node) ==
    [privateKey |-> node.privateKey, mnemonic |-> node.mnemonic, path |-> node.path]

\* new Wallet(privateKey)
WalletOfKey(privateKey) ==
    [privateKey |-> privateKey, mnemonic |-> NoMnemonic, path |-> PathNone]

defaultPath ==
    [abs |-> TRUE,
     comps |-> << Seg(44, TRUE), Seg(60, TRUE), Seg(0, TRUE), Seg(0, FALSE), Seg(0, FALSE) >>]

\* Wallet.fromMnemonic: HDNode.fromMnemonic, one derivePath, the wallet of that node
WalletFromMnemonicH(h, m) ==
    LET r == fromMnemonicH(h, m)
        d == derivePathH(r.heap, r.id, defaultPath)
    IN  IF r.err # "" THEN [heap |-> h, out |-> Err(r.err)]
        ELSE IF d.err # "" THEN [heap |-> d.heap, out |-> Err(d.err)]
        ELSE [heap |-> d.heap, out |-> [wallet |-> WalletOfNode(d.heap[d.id].node)]]

(***************************************************************************)
(* The module's functions over the key tree.  Each returns the heap after  *)
(* the call and what the call returned or threw.                           *)
(***************************************************************************)
restoreHDNodeUnchecked(h, mnemonic) ==
    [heap |-> Append(h, RootCell(fromSeed(mnemonicToSeed(mnemonic), mnemonic))),
     out |-> [node |-> fromSeed(mnemonicToSeed(mnemonic), mnemonic)]]

restoreHDNode(h, mnemonic) ==
    LET r == fromMnemonicH(h, mnemonic)
    IN  IF r.err # "" THEN [heap |-> h, out |-> Err(r.err)]
        ELSE [heap |-> r.heap, out |-> [node |-> r.heap[r.id].node]]

restoreHDWallet(h, mnemonic) == WalletFromMnemonicH(h, mnemonic)

\* randomEntropyBytes is what ethers.utils.randomBytes(16) returned
generateMnemonic(randomEntropyBytes) == entropyToMnemonic(randomEntropyBytes)

generateRandomHDNode(h, randomEntropyBytes) ==
    restoreHDNode(h, generateMnemonic(randomEntropyBytes))

\* Wallet.createRandom: random entropy, its phrase, Wallet.fromMnemonic
generateRandomHDWallet(h, randomEntropyBytes) ==
    WalletFromMnemonicH(h, entropyToMnemonic(randomEntropyBytes))

\* derivationPath + i, the separator forgotten: i lands in the last component
ChildPathNoSlash(derivationPath, i) ==
    LET n == Len(derivationPath.comps)
    IN  IF n = 0 THEN derivationPath
        ELSE [derivationPath EXCEPT !.comps[n].index = @ * 10 + i]

\* derivationPath + "/" + i
ChildPath(derivationPath, i) ==
    [derivationPath EXCEPT !.comps = Append(@, Seg(i, FALSE))]

\* a loop that runs i = 0 .. 5
LoopGuardOffByOne(i) == i <= 5

LoopGuard(i) == i < 5

RECURSIVE deriveFiveLoop(_, _, _, _, _)
deriveFiveLoop(h, mnemonic, derivationPath, i, wallets) ==
    IF ~LoopGuard(i) THEN [heap |-> h, out |-> [wallets |-> wallets]]
    ELSE LET r == fromMnemonicH(h, mnemonic)
             d == derivePathH(r.heap, r.id, ChildPath(derivationPath, i))
         IN  IF r.err # "" THEN [heap |-> h, out |-> Err(r.err)]
             ELSE IF d.err # "" THEN [heap |-> d.heap, out |-> Err(d.err)]
             ELSE deriveFiveLoop(d.heap, mnemonic, derivationPath, i + 1,
                                 Append(wallets, WalletOfKey(d.heap[d.id].node.privateKey)))

deriveFiveWalletsFromHdNode(mnemonic, derivationPath) ==
    deriveFiveLoop(<< >>, mnemonic, derivationPath, 0, << >>)

(***************************************************************************)
(* Inputs.                                                                 *)
(***************************************************************************)
\* the phrase of testApp, a second valid phrase, and three invalid ones:
\* a wrong word count, a word outside the list, a wrong checksum
TestMnemonic == entropyToMnemonic(11)

OtherMnemonic == entropyToMnemonic(6)

BadCountMnemonic == << 3 >>

BadWordMnemonic == << 9, 1 >>

BadChecksumMnemonic ==
    << TestMnemonic[1], ((TestMnemonic[2] \div 4) * 4) + ((TestMnemonic[2] + 1) % 4) >>

Mnemonics ==
    { TestMnemonic, OtherMnemonic, BadCountMnemonic, BadWordMnemonic, BadChecksumMnemonic }

\* m/44'/60'/0'/0 of testApp
TestPath ==
    [abs |-> TRUE, comps |-> << Seg(44, TRUE), Seg(60, TRUE), Seg(0, TRUE), Seg(0, FALSE) >>]

AbsPaths == { TestPath, [abs |-> TRUE, comps |-> << Seg(1, TRUE) >>], PathM }

RelPaths ==
    { [abs |-> FALSE, comps |-> << Seg(0, FALSE) >>],
      [abs |-> FALSE, comps |-> << Seg(1, TRUE), Seg(2, FALSE) >>] }

\* the random source returns entropy in 0 .. MaxRnd
MaxRnd == 1

\* cells the caller keeps
MaxHeap == 2

Idle == [op |-> "none", mnemonic |-> NoMnemonic, path |-> PathNone,
         out |-> Err("none"), nodes |-> << >>]

Returned(op, mnemonic, path, out, nodes) ==
    [op |-> op, mnemonic |-> mnemonic, path |-> path, out |-> out, nodes |-> nodes]

\* the cells of h2 past those of h1
NewCells(h1, h2) == SubSeq(h2, Len(h1) + 1, Len(h2))

CallRestoreHDNode(m) ==
    /\ Len(heap) < MaxHeap
    /\ LET r == restoreHDNode(heap, m)
       IN  /\ heap' = r.heap
           /\ last' = Returned("restoreHDNode", m, PathNone, r.out, NewCells(heap, r.heap))
    /\ UNCHANGED notTree

\* the calls that touch no node of the caller, tabulated over the inputs
restoreHDWalletOn == [m \in Mnemonics |-> restoreHDWallet(<< >>, m)]

generateRandomHDWalletOn == [e \in 0..MaxRnd |-> generateRandomHDWallet(<< >>, e)]

deriveFiveOn == [m \in Mnemonics, p \in AbsPaths |-> deriveFiveWalletsFromHdNode(m, p)]

CallRestoreHDWallet(m) ==
    /\ LET r == restoreHDWalletOn[m]
       IN  last' = Returned("restoreHDWallet", m, PathNone, r.out, r.heap)
    /\ UNCHANGED heap
    /\ UNCHANGED notTree

CallGenerateRandomHDNode(e) ==
    /\ Len(heap) < MaxHeap
    /\ LET r == generateRandomHDNode(heap, e)
       IN  /\ heap' = r.heap
           /\ last' = Returned("generateRandomHDNode", generateMnemonic(e), PathNone,
                               r.out, NewCells(heap, r.heap))
    /\ UNCHANGED notTree

CallGenerateRandomHDWallet(e) ==
    /\ LET r == generateRandomHDWalletOn[e]
       IN  last' = Returned("generateRandomHDWallet", entropyToMnemonic(e), PathNone,
                            r.out, r.heap)
    /\ UNCHANGED heap
    /\ UNCHANGED notTree

\* node.derivePath(path) on a node the caller holds; the caller keeps the
\* node returned, the nodes passed through on the way are dropped
CallDerivePath(id, path) ==
    /\ id \in 1..Len(heap)
    /\ Len(heap) < MaxHeap
    /\ LET r == derivePathH(heap, id, path)
           kept == SubSeq(r.heap, 1, Len(heap))
       IN  /\ heap' = IF r.err # "" \/ r.id = id THEN kept
                      ELSE Append(kept, Cell(r.heap[r.id].node, id, r.heap[r.id].seg))
           /\ last' = Returned("derivePath", heap[id].node.mnemonic, path,
                               IF r.err # "" THEN Err(r.err)
                               ELSE [node |-> r.heap[r.id].node],
                               NewCells(heap, r.heap))
    /\ UNCHANGED notTree

CallDeriveFive(m, path) ==
    /\ LET r == deriveFiveOn[m, path]
       IN  last' = Returned("deriveFive", m, path, r.out, r.heap)
    /\ UNCHANGED heap
    /\ UNCHANGED notTree

TreeInit ==
    /\ heap = << >>
    /\ last = Idle

TreeNext ==
    \/ \E m \in Mnemonics : CallRestoreHDNode(m)
    \/ \E m \in Mnemonics : CallRestoreHDWallet(m)
    \/ \E e \in 0..MaxRnd : CallGenerateRandomHDNode(e)
    \/ \E e \in 0..MaxRnd : CallGenerateRandomHDWallet(e)
    \/ \E id \in 1..MaxHeap, p \in AbsPaths \cup RelPaths : CallDerivePath(id, p)
    \/ \E m \in Mnemonics, p \in AbsPaths : CallDeriveFive(m, p)

(***************************************************************************)
(* Claims about the key tree, checked under SpecTree.                      *)
(***************************************************************************)
InvalidMnemonics == { BadCountMnemonic, BadWordMnemonic, BadChecksumMnemonic }

MnemonicErrors == { "InvalidWordCount", "InvalidWord", "InvalidChecksum" }

\* C4: restoreHDNode, restoreHDWallet and deriveFiveWalletsFromHdNode called
\* with a phrase of a wrong word count, with a word outside the list or with a
\* wrong checksum throw the codec's error, allocate no node and return no
\* wallet; no node the caller holds carries such a phrase.
C4_InvalidMnemonicRejected ==
    /\ (last.op \in { "restoreHDNode", "restoreHDWallet", "deriveFive" }
        /\ last.mnemonic \in InvalidMnemonics)
       => /\ IsErr(last.out)
          /\ last.out.err \in MnemonicErrors
          /\ last.nodes = << >>
    /\ \A i \in 1..Len(heap) : heap[i].node.mnemonic \notin InvalidMnemonics

C4_Witness ==
    /\ last.op = "deriveFive"
    /\ last.mnemonic = BadChecksumMnemonic
    /\ last.out = Err("InvalidChecksum")
    /\ heap # << >>

\* the part of path p up to component k, and the part after it
PathPrefix(p, k) == [abs |-> p.abs, comps |-> SubSeq(p.comps, 1, k)]

PathSuffix(p, k) == [abs |-> FALSE, comps |-> SubSeq(p.comps, k + 1, Len(p.comps))]

DeriveInTwo(root, p, k) ==
    LET mid == derivePath(root, PathPrefix(p, k))
    IN  IF IsErr(mid) THEN mid ELSE derivePath(mid, PathSuffix(p, k))

\* the cell holding the node of iteration i of deriveFiveWalletsFromHdNode:
\* an iteration allocates a root and one cell per component of path/i
IterationCell(nodes, path, i) == nodes[(i + 1) * (Len(path.comps) + 2)]

\* C5: for every root node held and every path, deriving the whole path gives
\* the node (all attributes) that deriving its suffix from the node at its
\* prefix gives, at every split; and the node deriveFiveWalletsFromHdNode
\* obtains for derivationPath + "/" + i is child i of the node at derivationPath.
C5_PathAssociative ==
    /\ \A c \in 1..Len(heap) :
          heap[c].node.depth = 0 =>
             \A p \in AbsPaths \cup RelPaths : \A k \in 0..Len(p.comps) :
                derivePath(heap[c].node, p) = DeriveInTwo(heap[c].node, p, k)
    /\ (last.op = "deriveFive" /\ ~IsErr(last.out)) =>
          \A i \in 0..4 :
             IterationCell(last.nodes, last.path, i).node
                = deriveChild(derivePath(fromMnemonic(last.mnemonic), last.path),
                              Seg(i, FALSE))

C5_Witness ==
    /\ last.op = "deriveFive"
    /\ ~IsErr(last.out)
    /\ last.path = TestPath
    /\ \E c \in 1..Len(heap) :
          /\ heap[c].node.depth = 0
          /\ ~IsErr(derivePath(heap[c].node, TestPath))

\* every derived cell of a call's own heap is the child of its parent cell as
\* the parent is after the call, and every root is the node of the phrase
CellsConsistent(nodes, mnemonic) ==
    \A c \in 1..Len(nodes) :
       IF nodes[c].parent = 0 THEN nodes[c].node = fromMnemonic(mnemonic)
       ELSE /\ nodes[c].parent < c
            /\ nodes[c].node = deriveChild(nodes[nodes[c].parent].node, nodes[c].seg)

OwnHeapOps == { "restoreHDWallet", "generateRandomHDWallet", "deriveFive" }

C6_Step ==
    /\ \A c \in 1..Len(heap) : c <= Len(heap') /\ heap'[c] = heap[c]
    /\ (last'.op = "derivePath" /\ ~IsErr(last'.out) /\ last'.path.comps # << >>)
       => /\ Len(heap') = Len(heap) + 1
          /\ heap'[Len(heap')].node = last'.out.node
          /\ last'.out.node # heap'[heap'[Len(heap')].parent].node
          /\ Len(last'.nodes) = Len(last'.path.comps)
    /\ last'.op \in OwnHeapOps => CellsConsistent(last'.nodes, last'.mnemonic)
    /\ (last'.op = "deriveFive" /\ ~IsErr(last'.out))
       => Cardinality({ c \in 1..Len(last'.nodes) : last'.nodes[c].parent = 0 }) = 5

\* C6: a step never changes a node that exists: every cell the caller holds
\* keeps all its attributes, derivePath returns a newly allocated node, and
\* after restoreHDWallet, createRandom and the five derivations of
\* deriveFiveWalletsFromHdNode every parent is still the node its children
\* were derived from.
C6_NodesNeverMutated == [][C6_Step]_vars

C6_Witness ==
    /\ last.op = "derivePath"
    /\ ~IsErr(last.out)
    /\ Len(last.path.comps) = 2
    /\ Len(heap) = 2
    /\ heap[2].parent = 1

\* derivationPath/i as a path: the components of derivationPath, then i
SlashIndex(path, i) == [abs |-> path.abs, comps |-> path.comps \o << Seg(i, FALSE) >>]

\* C8: deriveFiveWalletsFromHdNode(mnemonic, derivationPath) with a valid
\* phrase returns five wallets, the i-th (i = 0..4) the bare-key wallet of
\* derivePath(fromSeed(mnemonicToSeed(mnemonic)), derivationPath/i), whatever
\* calls came before it.
C8_FiveWallets ==
    last.op = "deriveFive" =>
       /\ last.mnemonic \in { TestMnemonic, OtherMnemonic } => ~IsErr(last.out)
       /\ ~IsErr(last.out) =>
             /\ Len(last.out.wallets) = 5
             /\ \A i \in 0..4 :
                   last.out.wallets[i + 1] =
                      WalletOfKey(derivePath(fromSeed(mnemonicToSeed(last.mnemonic),
                                                      last.mnemonic),
                                             SlashIndex(last.path, i)).privateKey)

C8_Witness ==
    /\ last.op = "deriveFive"
    /\ last.mnemonic = TestMnemonic
    /\ last.path = TestPath
    /\ ~IsErr(last.out)
    /\ Len(last.out.wallets) = 5
    /\ Cardinality({ last.out.wallets[i].privateKey : i \in 1..5 }) = 5
    /\ Len(heap) = MaxHeap

(***************************************************************************)
(* Keystore codec.  A password is a number; the key-stretching function    *)
(* gives three keys.  The cipher adds a keystream of (key, iv) and the MAC *)
(* of (mac key, ciphertext) is that pair.                                  *)
(***************************************************************************)
KDF(password, salt) ==
    [encKey |-> (password * 13 + salt * 7 + 1) % 251,
     macKey |-> password * 8 + salt,
     mnemonicKey |-> (password * 29 + salt * 11 + 5) % 251]

Keystream(key, iv) == (key * 37 + iv * 101 + 3) % 65521

CtrEncrypt(key, iv, plain, modulus) == (plain + Keystream(key, iv)) % modulus

CtrDecrypt(key, iv, cipher, modulus) ==
    ((cipher % modulus) + modulus - (Keystream(key, iv) % modulus)) % modulus

MAC(macKey, ciphertext) == << macKey, ciphertext >>

AddressOf(privateKey) == (PublicKeyOf(privateKey) * 11 + 7) % 9973

NoExtension ==
    [present |-> FALSE, mnemonicCiphertext |-> 0, mnemonicIv |-> 0, path |-> PathNone]

\* Wallet.encrypt: the private key under the first key, the phrase's entropy
\* and the path in the extension, the MAC over the ciphertext
encrypt(wallet, password, salt, iv, mnemonicIv) ==
    LET dk == KDF(password, salt)
        ct == CtrEncrypt(dk.encKey, iv, wallet.privateKey, 65521)
    IN  [version |-> 3,
         address |-> AddressOf(wallet.privateKey),
         ciphertext |-> ct,
         iv |-> iv,
         salt |-> salt,
         mac |-> MAC(dk.macKey, ct),
         ext |-> IF wallet.mnemonic = NoMnemonic THEN NoExtension
                 ELSE [present |-> TRUE,
                       mnemonicCiphertext |->
                           CtrEncrypt(dk.mnemonicKey, mnemonicIv,
                                      mnemonicToEntropy(wallet.mnemonic).entropy, 16),
                       mnemonicIv |-> mnemonicIv,
                       path |-> wallet.path]]

\* what decrypt does once the MAC has matched
decryptPayload(doc, dk) ==
    LET privateKey == CtrDecrypt(dk.encKey, doc.iv, doc.ciphertext, 65521)
        entropy == CtrDecrypt(dk.mnemonicKey, doc.ext.mnemonicIv,
                              doc.ext.mnemonicCiphertext, 16)
        node == derivePath(fromMnemonic(entropyToMnemonic(entropy)), doc.ext.path)
    IN  IF ~doc.ext.present
        THEN [out |-> [wallet |-> WalletOfKey(privateKey)],
              steps |-> << "kdf", "mac", "decrypt" >>]
        ELSE IF IsErr(node)
        THEN [out |-> node, steps |-> << "kdf", "mac", "decrypt", "derive" >>]
        ELSE [out |-> [wallet |-> WalletOfNode(node)],
              steps |-> << "kdf", "mac", "decrypt", "derive" >>]

\* Wallet.fromEncryptedJson: the MAC is compared before anything is decrypted
fromEncryptedJson(doc, password) ==
    LET dk == KDF(password, doc.salt)
    IN  IF "ciphertext" \notin DOMAIN doc
        THEN [out |-> Err("InvalidJson"), steps |-> << >>]
        ELSE IF MAC(dk.macKey, doc.ciphertext) # doc.mac
        THEN [out |-> Err("AuthenticationFailed"), steps |-> << "kdf", "mac" >>]
        ELSE decryptPayload(doc, dk)

\* the wallet's key alone goes into the document
saveWalletAsJsonKeyOnly(wallet, password, salt, iv, mnemonicIv) ==
    encrypt(WalletOfKey(wallet.privateKey), password, salt, iv, mnemonicIv)

\* salt, iv and mnemonicIv are what the random source returned to encrypt
saveWalletAsJson(wallet, password, salt, iv, mnemonicIv) ==
    encrypt(wallet, password, salt, iv, mnemonicIv)

\* a rejection caught and turned into a fulfilled promise of undefined
decryptWalletCatching(json, password) ==
    LET r == fromEncryptedJson(json, password)
    IN  IF IsErr(r.out) THEN [out |-> [undefined |-> TRUE], steps |-> r.steps] ELSE r

decryptWallet(json, password) == fromEncryptedJson(json, password)

(***************************************************************************)
(* Calls of saveWalletAsJson and decryptWallet.  Both are async: a call    *)
(* leaves a pending promise, which settles in a later step.  Between the   *)
(* two a stored document may be altered in one field.                      *)
(***************************************************************************)
\* "p@$$word"
AppPassword == 1

Passwords == { AppPassword, AppPassword + 1 }

Salts == 0..1

Ivs == 0..1

\* wallets of every kind: createRandom, fromMnemonic, a bare derived key
KeystoreWallets ==
    { generateRandomHDWalletOn[e].out.wallet : e \in 0..MaxRnd }
       \cup { restoreHDWalletOn[TestMnemonic].out.wallet,
              WalletOfNode(fromMnemonic(OtherMnemonic)),
              deriveFiveOn[TestMnemonic, TestPath].out.wallets[2] }

TamperFields == { "ciphertext", "mac", "salt", "iv" }

Altered(doc, field) ==
    CASE field = "ciphertext" -> [doc EXCEPT !.ciphertext = (@ + 1) % 65521]
      [] field = "mac" -> [doc EXCEPT !.mac = << -1 - @[1], @[2] >>]
      [] field = "salt" -> [doc EXCEPT !.salt = @ + 1]
      [] field = "iv" -> [doc EXCEPT !.iv = @ + 1]
      [] OTHER -> doc

NoSave == [state |-> "none"]

NoDec == [state |-> "none"]

\* saveWalletAsJson(w, pw): encrypt draws salt and ivs, the promise is pending
CallSaveWalletAsJson(w, pw, salt, iv, miv) ==
    /\ save.state # "pending"
    /\ dec.state # "pending"
    /\ save' = [state |-> "pending", wallet |-> w, password |-> pw,
                salt |-> salt, iv |-> iv, mnemonicIv |-> miv]
    /\ dec' = NoDec
    /\ UNCHANGED notKeystore

\* the key stretching is done: the promise is fulfilled with the document
SettleSave ==
    /\ save.state = "pending"
    /\ save' = [state |-> "fulfilled", wallet |-> save.wallet, password |-> save.password,
                altered |-> "none",
                json |-> saveWalletAsJson(save.wallet, save.password, save.salt,
                                          save.iv, save.mnemonicIv)]
    /\ UNCHANGED dec
    /\ UNCHANGED notKeystore

\* the stored document is altered in one field
Tamper(field) ==
    /\ save.state = "fulfilled"
    /\ save.altered = "none"
    /\ dec.state # "pending"
    /\ save' = [save EXCEPT !.altered = field, !.json = Altered(@, field)]
    /\ dec' = NoDec
    /\ UNCHANGED notKeystore

\* decryptWallet(json, pw) on the stored document
CallDecryptWallet(pw) ==
    /\ save.state = "fulfilled"
    /\ dec.state # "pending"
    /\ dec' = [state |-> "pending", json |-> save.json, password |-> pw]
    /\ UNCHANGED save
    /\ UNCHANGED notKeystore

SettleDecrypt ==
    /\ dec.state = "pending"
    /\ LET r == decryptWallet(dec.json, dec.password)
       IN  dec' = [state |-> "settled", json |-> dec.json, password |-> dec.password,
                   out |-> r.out, steps |-> r.steps]
    /\ UNCHANGED save
    /\ UNCHANGED notKeystore

KeystoreInit ==
    /\ save = NoSave
    /\ dec = NoDec

KeystoreNext ==
    \/ \E w \in KeystoreWallets, pw \in Passwords, salt \in Salts, iv \in Ivs, miv \in Ivs :
          CallSaveWalletAsJson(w, pw, salt, iv, miv)
    \/ SettleSave
    \/ \E f \in TamperFields : Tamper(f)
    \/ \E pw \in Passwords : CallDecryptWallet(pw)
    \/ SettleDecrypt

\* C1: decryptWallet(saveWalletAsJson(w, pw), pw) is fulfilled with a wallet of
\* the private key of w and, when w carries a phrase, of its phrase and path.
C1_RoundTrip ==
    (dec.state = "settled" /\ save.altered = "none" /\ dec.password = save.password)
       => /\ ~IsErr(dec.out)
          /\ "wallet" \in DOMAIN dec.out
          /\ dec.out.wallet.privateKey = save.wallet.privateKey
          /\ save.wallet.mnemonic # NoMnemonic
                => /\ dec.out.wallet.mnemonic = save.wallet.mnemonic
                   /\ dec.out.wallet.path = save.wallet.path

C1_Witness ==
    /\ dec.state = "settled"
    /\ save.altered = "none"
    /\ dec.password = save.password
    /\ save.wallet.mnemonic # NoMnemonic
    /\ save.wallet.path = defaultPath
    /\ dec.out = [wallet |-> save.wallet]

Used(steps, what) == \E i \in 1..Len(steps) : steps[i] = what

\* C2 as stated: a wrong password, or a document altered in any field, is
\* rejected with AuthenticationFailed and nothing is decrypted.
C2_AnyTamperRejected ==
    (dec.state = "settled" /\ (dec.password # save.password \/ save.altered # "none"))
       => /\ dec.out = Err("AuthenticationFailed")
          /\ ~Used(dec.steps, "decrypt")

\* C2 amended: a wrong password, or a document altered in its ciphertext, MAC
\* or salt, is rejected with AuthenticationFailed and returns no wallet; and
\* whenever decrypted bytes are used the MAC was compared first and matched.
C2_MacMismatchRejected ==
    dec.state = "settled" =>
       /\ (dec.password # save.password \/ save.altered \in { "ciphertext", "mac", "salt" })
             => /\ dec.out = Err("AuthenticationFailed")
                /\ ~Used(dec.steps, "decrypt")
                /\ ~Used(dec.steps, "derive")
       /\ Used(dec.steps, "decrypt")
             => /\ MAC(KDF(dec.password, dec.json.salt).macKey, dec.json.ciphertext)
                      = dec.json.mac
                /\ \E i, j \in 1..Len(dec.steps) :
                      i < j /\ dec.steps[i] = "mac" /\ dec.steps[j] = "decrypt"

C2_Witness ==
    /\ dec.state = "settled"
    /\ dec.password # save.password
    /\ save.altered = "none"
    /\ save.wallet.mnemonic # NoMnemonic
    /\ dec.out = Err("AuthenticationFailed")

(***************************************************************************)
(* Transaction signer.  An amount is a decimal string (whole part and      *)
(* tenths) or not a number; parseEther gives it in units of 10^17 wei.  A  *)
(* recipient is a well-formed address or not.                              *)
(***************************************************************************)
Decimal(whole, tenths) == [decimal |-> TRUE, whole |-> whole, tenths |-> tenths]

NotANumber == [decimal |-> FALSE, whole |-> 0, tenths |-> 0]

parseEther(value) ==
    IF value.decimal THEN [wei |-> value.whole * 10 + value.tenths]
    ELSE Err("InvalidValue")

Address(a) == [wellFormed |-> TRUE, addr |-> a]

BadAddress == [wellFormed |-> FALSE, addr |-> 0]

\* the fields in their fixed order; an address that is not one is refused
buildCanonicalPayload(tx) ==
    IF ~tx.to.wellFormed THEN Err("InvalidAddress")
    ELSE [bytes |-> << tx.nonce, tx.gasPrice, tx.gasLimit, tx.to.addr, tx.value, 0 >>]

RECURSIVE HashBytes(_, _)
HashBytes(bytes, acc) ==
    IF bytes = << >> THEN acc
    ELSE HashBytes(Tail(bytes), (acc * 31 + (Head(bytes) % 65521) + 1) % 65521)

hash(payload) == HashBytes(payload, 7)

\* the nonce k is a function of key and digest (RFC 6979)
signDigest(privateKey, digest) ==
    LET k == Mix(privateKey, digest, 3)
        r == PublicKeyOf(k)
        s == ((k % 251) * ((digest + (r % 251) * (privateKey % 251)) % 65521)) % 65521
    IN  [r |-> r, s |-> s, recoveryBit |-> k % 2]

\* Wallet.sign: build, hash, sign, serialize again with the signature
walletSign(wallet, tx) ==
    LET payload == buildCanonicalPayload(tx)
        sig == signDigest(wallet.privateKey, hash(payload.bytes))
    IN  IF IsErr(payload) THEN payload
        ELSE [signed |-> payload.bytes \o << sig.recoveryBit, sig.r, sig.s >>]

\* the nonce taken from the number of transactions signed so far
TxNonceCounting(signedSoFar) == signedSoFar

\* nonce: 0
TxNonce(signedSoFar) == 0

\* signTransaction: the outcome of the promise it returns
signTransaction(wallet, toAddress, value, signedSoFar) ==
    LET amount == parseEther(value)
    IN  IF IsErr(amount) THEN amount
        ELSE walletSign(wallet,
                        [nonce |-> TxNonce(signedSoFar), gasLimit |-> 21000,
                         gasPrice |-> 2000000000, to |-> toAddress,
                         value |-> amount.wei])

Undefined == [undefined |-> TRUE]

\* a signMyTransaction that lets the error through
signMyTransactionRethrow(outcome) ==
    IF IsErr(outcome) THEN [promise |-> outcome, logs |-> << >>]
    ELSE [promise |-> Undefined, logs |-> << [signed |-> outcome.signed] >>]

\* signMyTransaction after its await: the outcome of signTransaction is
\* logged, a rejection as its message, and the promise is fulfilled
signMyTransaction(outcome) ==
    IF IsErr(outcome)
    THEN [promise |-> Undefined, logs |-> << [error |-> outcome.err] >>]
    ELSE [promise |-> Undefined, logs |-> << [signed |-> outcome.signed] >>]

\* recipient and value of testApp
TestRecipient == Address(933)

TestValue == Decimal(1, 0)

Recipients == { TestRecipient, Address(17), BadAddress }

Values == { TestValue, NotANumber }

\* the wallet testApp signs with, and a random one
SignWallets ==
    { deriveFiveOn[TestMnemonic, TestPath].out.wallets[2],
      generateRandomHDWalletOn[0].out.wallet }

\* calls of signTransaction kept
MaxSigns == 2

NoCall == [state |-> "none"]

\* signTransaction(w, to, v) and what its promise settled with
CallSignTransaction(w, to, v) ==
    /\ Len(signLog) < MaxSigns
    /\ signLog' = Append(signLog,
                         [wallet |-> w, to |-> to, value |-> v, rnd |-> rnd,
                          out |-> signTransaction(w, to, v, Len(signLog))])
    /\ UNCHANGED << smt, rnd >>
    /\ UNCHANGED notSign

\* signMyTransaction(w, to, v) up to its await: signTransaction has been
\* called, the caller holds a pending promise
CallSignMyTransaction(w, to, v) ==
    /\ smt.state # "pending"
    /\ Len(signLog) < MaxSigns
    /\ smt' = [state |-> "pending", wallet |-> w, to |-> to, value |-> v,
               outcome |-> signTransaction(w, to, v, Len(signLog))]
    /\ signLog' = Append(signLog,
                         [wallet |-> w, to |-> to, value |-> v, rnd |-> rnd,
                          out |-> signTransaction(w, to, v, Len(signLog))])
    /\ UNCHANGED rnd
    /\ UNCHANGED notSign

\* the continuation after the await
ResumeSignMyTransaction ==
    /\ smt.state = "pending"
    /\ LET r == signMyTransaction(smt.outcome)
       IN  smt' = [state |-> "settled", wallet |-> smt.wallet, to |-> smt.to,
                   value |-> smt.value, outcome |-> smt.outcome,
                   promise |-> r.promise, logs |-> r.logs]
    /\ UNCHANGED << signLog, rnd >>
    /\ UNCHANGED notSign

\* another operation consumes the random source (createRandom, encrypt)
DrawRandom(e) ==
    /\ rnd' = e
    /\ rnd # e
    /\ UNCHANGED << signLog, smt >>
    /\ UNCHANGED notSign

SignInit ==
    /\ signLog = << >>
    /\ smt = NoCall
    /\ rnd = 0

SignNext ==
    \/ \E w \in SignWallets, to \in Recipients, v \in Values :
          CallSignTransaction(w, to, v)
    \/ \E w \in SignWallets, to \in Recipients, v \in Values :
          CallSignMyTransaction(w, to, v)
    \/ ResumeSignMyTransaction
    \/ \E e \in 0..MaxRnd : DrawRandom(e)

\* C3 as stated: when signing fails, signTransaction's promise is rejected
\* with the originating error and carries no transaction, and so is the
\* promise signMyTransaction returned to its caller.
C3_ErrorsPropagate ==
    /\ \A i \in 1..Len(signLog) :
          (~signLog[i].value.decimal \/ ~signLog[i].to.wellFormed)
             => /\ IsErr(signLog[i].out)
                /\ "signed" \notin DOMAIN signLog[i].out
    /\ (smt.state = "settled" /\ IsErr(smt.outcome)) => smt.promise = smt.outcome

\* C7: two calls of signTransaction with the same wallet, recipient and value
\* settle with the same signed bytes, whatever was signed or drawn in between.
C7_SignDeterministic ==
    \A i, j \in 1..Len(signLog) :
       (/\ signLog[i].wallet = signLog[j].wallet
        /\ signLog[i].to = signLog[j].to
        /\ signLog[i].value = signLog[j].value)
          => signLog[i].out = signLog[j].out

C7_Witness ==
    /\ Len(signLog) = 2
    /\ signLog[1].wallet = signLog[2].wallet
    /\ signLog[1].to = TestRecipient /\ signLog[2].to = TestRecipient
    /\ signLog[1].value = TestValue /\ signLog[2].value = TestValue
    /\ signLog[1].rnd # signLog[2].rnd
    /\ "signed" \in DOMAIN signLog[1].out
    /\ Len(signLog[1].out.signed) = 9

(***************************************************************************)
(* The program: loading the module runs the first async task up to its     *)
(* await, then the second, then testApp; after that the pending promises   *)
(* settle and the continuations run, in any order.                         *)
(***************************************************************************)
\* what the random source returns to one call of encrypt
EncryptDraws ==
    { [salt |-> 0, iv |-> 0, mnemonicIv |-> 1], [salt |-> 1, iv |-> 1, mnemonicIv |-> 0] }

\* recipient and value of testApp's call of signMyTransaction: those of line
\* 165, and two that make signing fail
SignInputs ==
    { [to |-> TestRecipient, value |-> TestValue],
      [to |-> TestRecipient, value |-> NotANumber],
      [to |-> BadAddress, value |-> TestValue] }

Log(line, value) == [line |-> line, value |-> value]

\* "..." + x for an object x: a promise prints as [object Promise]
StringOf(x) ==
    IF "promise" \in DOMAIN x THEN [text |-> "[object Promise]"] ELSE x

PromiseOf(fn) == [promise |-> fn]

\* the json passed to decryptWallet, the await of line 84 forgotten
AwaitedJsonForgotten(settled) == PromiseOf("saveWalletAsJson")

\* let json = await saveWalletAsJson(wallet, password)
AwaitedJson(settled) == settled

\* lines 60-63: the first task up to its await
RunTask1(e, d) ==
    /\ pc1 = "start"
    /\ pc1' = "awaitSave"
    /\ env1' = [wallet |-> generateRandomHDWalletOn[e].out.wallet,
                password |-> AppPassword, draw |-> d]
    /\ UNCHANGED << pc2, pc3, env2, env3, console >>
    /\ UNCHANGED notApp

\* lines 81-84: the second task up to its first await
RunTask2(e, d) ==
    /\ pc1 # "start" /\ pc2 = "start"
    /\ pc2' = "awaitSave"
    /\ env2' = [wallet |-> generateRandomHDWalletOn[e].out.wallet,
                password |-> AppPassword, draw |-> d]
    /\ UNCHANGED << pc1, pc3, env1, env3, console >>
    /\ UNCHANGED notApp

\* lines 146-167: testApp, up to its return; signMyTransaction has run up to
\* its await and returned a pending promise, which line 167 prints
RunTestApp(e3, e4, in) ==
    /\ pc2 # "start" /\ pc3 = "start"
    /\ LET mnemonic == TestMnemonic
           derivationPath == TestPath
           five == deriveFiveOn[mnemonic, derivationPath]
           wallets == five.out.wallets
           signedTransaction == PromiseOf("signMyTransaction")
       IN  /\ env3' = [to |-> in.to, value |-> in.value, wallets |-> wallets,
                    outcome |-> signTransaction(wallets[2], in.to, in.value, 0),
                    promise |-> signedTransaction]
           /\ console' = console \o
                 << Log(149, restoreHDNode(<< >>, mnemonic).out),
                    Log(151, restoreHDWalletOn[mnemonic].out),
                    Log(153, generateRandomHDNode(<< >>, e3).out),
                    Log(155, generateRandomHDWalletOn[e4].out),
                    Log(160, five.out),
                    Log(167, StringOf(signedTransaction)) >>
    /\ pc3' = "awaitSign"
    /\ UNCHANGED << pc1, pc2, env1, env2 >>
    /\ UNCHANGED notApp

\* the script has run to its end: promises settle and continuations run
Loaded == pc3 # "start"

\* the first task's encrypt is done
SettleSave1 ==
    /\ Loaded /\ pc1 = "awaitSave"
    /\ pc1' = "saved"
    /\ env1' = [wallet |-> env1.wallet, password |-> env1.password, draw |-> env1.draw,
                json |-> saveWalletAsJson(env1.wallet, env1.password, env1.draw.salt,
                                          env1.draw.iv, env1.draw.mnemonicIv)]
    /\ UNCHANGED << pc2, pc3, env2, env3, console >>
    /\ UNCHANGED notApp

\* line 64
ResumeTask1 ==
    /\ pc1 = "saved"
    /\ pc1' = "done"
    /\ console' = Append(console, Log(64, env1.json))
    /\ UNCHANGED << pc2, pc3, env1, env2, env3 >>
    /\ UNCHANGED notApp

SettleSave2 ==
    /\ Loaded /\ pc2 = "awaitSave"
    /\ pc2' = "saved"
    /\ env2' = [wallet |-> env2.wallet, password |-> env2.password, draw |-> env2.draw,
                json |-> saveWalletAsJson(env2.wallet, env2.password, env2.draw.salt,
                                          env2.draw.iv, env2.draw.mnemonicIv)]
    /\ UNCHANGED << pc1, pc3, env1, env3, console >>
    /\ UNCHANGED notApp

\* line 86 up to its await: decryptWallet is called with the task's own json
ResumeTask2 ==
    /\ pc2 = "saved"
    /\ pc2' = "awaitDecrypt"
    /\ env2' = [wallet |-> env2.wallet, password |-> env2.password, draw |-> env2.draw,
                json |-> env2.json, arg |-> AwaitedJson(env2.json)]
    /\ UNCHANGED << pc1, pc3, env1, env3, console >>
    /\ UNCHANGED notApp

SettleDecrypt2 ==
    /\ pc2 = "awaitDecrypt"
    /\ pc2' = "decrypted"
    /\ env2' = [wallet |-> env2.wallet, password |-> env2.password, draw |-> env2.draw,
                json |-> env2.json, arg |-> env2.arg,
                settled |-> decryptWallet(env2.arg, env2.password).out]
    /\ UNCHANGED << pc1, pc3, env1, env3, console >>
    /\ UNCHANGED notApp

\* lines 87-88; a rejected await ends the task with nothing logged
FinishTask2 ==
    /\ pc2 = "decrypted"
    /\ pc2' = "done"
    /\ console' = IF IsErr(env2.settled) THEN console
                  ELSE Append(console, Log(88, env2.settled))
    /\ UNCHANGED << pc1, pc3, env1, env2, env3 >>
    /\ UNCHANGED notApp

\* lines 138-142: signMyTransaction after its await
ResumeSign ==
    /\ pc3 = "awaitSign"
    /\ pc3' = "done"
    /\ LET r == signMyTransaction(env3.outcome)
       IN  /\ console' = console \o
                 [i \in 1..Len(r.logs) |->
                     IF IsErr(env3.outcome) THEN Log(141, r.logs[i]) ELSE Log(139, r.logs[i])]
           /\ env3' = [env3 EXCEPT !.promise = r.promise]
    /\ UNCHANGED << pc1, pc2, env1, env2 >>
    /\ UNCHANGED notApp

AppInit ==
    /\ pc1 = "start" /\ pc2 = "start" /\ pc3 = "start"
    /\ env1 = [wallet |-> WalletOfKey(0)]
    /\ env2 = [wallet |-> WalletOfKey(0)]
    /\ env3 = [wallets |-> << >>]
    /\ console = << >>

AppNext ==
    \/ \E e \in 0..MaxRnd, d \in EncryptDraws : RunTask1(e, d)
    \/ \E e \in 0..MaxRnd, d \in EncryptDraws : RunTask2(e, d)
    \/ \E e3, e4 \in 0..MaxRnd, in \in SignInputs : RunTestApp(e3, e4, in)
    \/ SettleSave1
    \/ ResumeTask1
    \/ SettleSave2
    \/ ResumeTask2
    \/ SettleDecrypt2
    \/ FinishTask2
    \/ ResumeSign

\* the event loop runs the continuation of signMyTransaction once the
\* promise it awaits has settled; nothing is assumed of the other tasks
AppFairness == WF_vars(ResumeSign)

(***************************************************************************)
(* Claims about the program, checked under SpecApp and FairSpecApp.        *)
(***************************************************************************)
Logged(line) == SelectSeq(console, LAMBDA x : x.line = line)

Position(line) == CHOOSE i \in 1..Len(console) : console[i].line = line

\* what the tasks produce when run one after another: the keystore of the
\* task's own wallet under its own draws, the wallet of that keystore, and
\* the signature of the second derived wallet over testApp's transaction
SequentialKeystore(env) ==
    encrypt(env.wallet, AppPassword, env.draw.salt, env.draw.iv, env.draw.mnemonicIv)

SequentialDecrypted(env) == fromEncryptedJson(SequentialKeystore(env), AppPassword).out

SequentialSigned(env) ==
    LET key == derivePath(fromMnemonic(TestMnemonic), SlashIndex(TestPath, 1)).privateKey
        amount == parseEther(env.value)
    IN  IF IsErr(amount) THEN [error |-> amount.err]
        ELSE IF ~env.to.wellFormed THEN [error |-> "InvalidAddress"]
        ELSE [signed |-> walletSign(WalletOfKey(key),
                                    [nonce |-> 0, gasLimit |-> 21000,
                                     gasPrice |-> 2000000000, to |-> env.to,
                                     value |-> amount.wei]).signed]

\* C9: in every interleaving of the three tasks' continuations, the keystore
\* the first task prints is the one of its own wallet and draws, the wallet
\* the second task prints is the one it created, and what signMyTransaction
\* prints is the signature of testApp's own transaction: the results of the
\* tasks run one after another.
C9_TasksIndependent ==
    /\ pc1 = "done" => Logged(64) = << Log(64, SequentialKeystore(env1)) >>
    /\ pc2 \in { "saved", "awaitDecrypt", "decrypted", "done" }
          => env2.json = SequentialKeystore(env2)
    /\ pc2 = "done" =>
          /\ Logged(88) = << Log(88, SequentialDecrypted(env2)) >>
          /\ Logged(88)[1].value = [wallet |-> env2.wallet]
    /\ pc3 = "done" =>
          Logged(139) \o Logged(141) \in
             { << Log(139, SequentialSigned(env3)) >>, << Log(141, SequentialSigned(env3)) >> }

C9_Witness ==
    /\ pc1 = "done" /\ pc2 = "done" /\ pc3 = "done"
    /\ env1.wallet # env2.wallet
    /\ Len(Logged(139)) = 1
    /\ Position(88) < Position(139)
    /\ Position(139) < Position(64)

OutcomeLogs == SelectSeq(console, LAMBDA x : x.line \in { 139, 141 })

C10_Safe ==
    /\ Len(OutcomeLogs) <= 1
    /\ Len(Logged(167)) <= 1
    /\ \A i \in 1..Len(console) :
          /\ console[i].line \in { 139, 141 }
                => \E j \in 1..(i - 1) : console[j].line = 167
          /\ console[i].line = 167 => console[i].value = [text |-> "[object Promise]"]
          /\ console[i].line = 139
                => /\ ~IsErr(env3.outcome)
                   /\ console[i].value = [signed |-> env3.outcome.signed]
          /\ console[i].line = 141
                => /\ IsErr(env3.outcome)
                   /\ console[i].value = [error |-> env3.outcome.err]

\* C10: once testApp has called signMyTransaction, exactly one outcome is
\* eventually printed, the signed transaction when signing succeeded and the
\* error message when it failed; it is printed after line 167 has printed,
\* and line 167 prints a promise, never the signed bytes.
C10_OneOutcomeLogged ==
    /\ []C10_Safe
    /\ (pc3 # "start") ~> (Len(OutcomeLogs) = 1)

C10_Witness ==
    /\ pc3 = "done"
    /\ env3.to = TestRecipient /\ env3.value = TestValue
    /\ Len(Logged(139)) = 1
    /\ Position(167) < Position(139)
    /\ Len(Logged(139)[1].value.signed) = 9

(***************************************************************************)
(* The specifications.                                                     *)
(***************************************************************************)
Init == TreeInit /\ KeystoreInit /\ SignInit /\ AppInit

\* calls of the key-tree functions
SpecTree == Init /\ [][TreeNext]_vars

\* calls of the keystore functions
SpecKeystore == Init /\ [][KeystoreNext]_vars

\* calls of the signing functions
SpecSign == Init /\ [][SignNext]_vars

\* the program
SpecApp == Init /\ [][AppNext]_vars

FairSpecApp == SpecApp /\ AppFairness

====
